---- MODULE Spec2Model ----
(***************************************************************************)
(* The PDF unlocker in three parts, each with a specification of its own:  *)
(*   Spec       the request/response protocol of the useMupdfWorker hook   *)
(*              (the queueing version, src/src/hooks/useMupdfWorker.ts     *)
(*              lines 1-122): requests are numbered, their resolvers kept  *)
(*              in a registry, their messages queued until the worker says *)
(*              "ready", and the worker's replies are routed back to the   *)
(*              resolver registered under the reply's id;                  *)
(*   SpecWorker the worker (src/unnamed/part_000 lines 89-206), which      *)
(*              answers each request after calling the PDF library;        *)
(*   SpecUI     the component (src/src/components/PDFUnlocker.tsx), which  *)
(*              lists the files and calls autoUnlock and decrypt on them.  *)
(* The steps of one part leave the variables of the other parts unchanged. *)
(***************************************************************************)
EXTENDS Integers, Sequences, FiniteSets, TLC

\* Number of autoUnlock/decrypt calls made on the hook in one run.
MaxCalls == 2

CallIds == 1..MaxCalls

\* The files the caller passes in, and what file.arrayBuffer() reads from them.
Files == {"test.pdf"}

FileBytes(file) == <<1, 2, 3, 4>>

Passwords == {"mypassword", "pass"}

\* Ids a worker reply may carry: every id the hook can assign. A reply may come
\* before its id is assigned or after its request is settled: it is then unknown.
ReplyIds == 0..(MaxCalls - 1)

\* Result buffers and error texts a worker reply may carry.
ReplyBytes == {<<9, 9, 9>>}

ReplyErrors == {"Corrupt PDF"}

Null == "null"

\* The value of a property that the object does not have.
Undefined == "undefined"

\* A buffer that is read once and kept for every later request.
ArrayBufferCached(buf, bytes) == [buf |-> "cached", bytes |-> bytes]

\* An ArrayBuffer: its identity and its bytes.
ArrayBuffer(buf, bytes) == [buf |-> buf, bytes |-> bytes]

\* A byte array that takes a length where the buffer should be: it is empty.
Uint8ArrayOfLength(data) == [buffer |-> ArrayBuffer("new", << >>), length |-> 0]

\* new Uint8Array(data): a view of the whole buffer.
Uint8Array(data) == [buffer |-> data, length |-> Len(data.bytes)]

\* event.data of the messages the worker sends.
WorkerMessages ==
    {[type |-> "ready"]}
    \cup {[type |-> "success", id |-> i, data |-> ArrayBuffer("reply", b)] :
             i \in ReplyIds, b \in ReplyBytes}
    \cup {[type |-> "needs-password", id |-> i] : i \in ReplyIds}
    \cup {[type |-> "error", id |-> i, error |-> e] : i \in ReplyIds, e \in ReplyErrors}
    \cup {[type |-> "progress", id |-> i] : i \in ReplyIds}

VARIABLES
    workerRef,   \* workerRef.current: "worker" or Null
    pendingRef,  \* pendingRef.current: id -> the call whose resolve is stored
    idRef,       \* idRef.current
    readyRef,    \* readyRef.current
    queueRef,    \* queueRef.current: sequence of QueuedMessage
    posted,      \* the calls of worker.postMessage so far, in order
    terminated,  \* worker.terminate() has been called
    calls,       \* the autoUnlock/decrypt calls and their promises
    event        \* the handler or step that ran last, with its input

vars == <<workerRef, pendingRef, idRef, readyRef, queueRef, posted, terminated, calls, event>>

\* The worker script (src/unnamed/part_000 lines 89-206).
VARIABLES
    selfPosted   \* the calls of self.postMessage so far, in order

workerVars == <<selfPosted, event>>

\* The component (src/src/components/PDFUnlocker.tsx).
VARIABLES
    files,           \* the files state: the list of PdfFile
    sharedPassword,  \* the sharedPassword state
    isReady,         \* isReady as the hook returns it to the component
    running,         \* the processFile and handleUnlockWithPassword calls at their await
    idCount,         \* how many PdfFile ids have been generated
    autoUnlockCalls, \* the File of every call of autoUnlock, in order
    timers           \* the downloads handleDownloadAll has scheduled, in firing order

uiVars == <<files, sharedPassword, isReady, running, idCount, autoUnlockCalls, timers, event>>

\* The single-file component (src/unnamed/part_005), which takes isReady and
\* decrypt from the hook.
VARIABLES
    single,      \* its states: file, password, status, errorMessage, unlockedPdf
    unlocking,   \* the handleUnlock calls at their await, with what they captured
    unlockCount  \* how many handleUnlock calls have reached their await

singleVars == <<single, unlocking, unlockCount, isReady, event>>

\* What the hook's steps leave alone, and what the worker's and the component's do.
hookFrame == UNCHANGED <<selfPosted, files, sharedPassword, isReady, running, idCount,
                         autoUnlockCalls, timers, single, unlocking, unlockCount>>

workerFrame ==
    UNCHANGED <<workerRef, pendingRef, idRef, readyRef, queueRef, posted, terminated, calls,
                files, sharedPassword, isReady, running, idCount, autoUnlockCalls, timers,
                single, unlocking, unlockCount>>

uiFrame ==
    UNCHANGED <<workerRef, pendingRef, idRef, readyRef, queueRef, posted, terminated, calls,
                selfPosted, single, unlocking, unlockCount>>

singleFrame ==
    UNCHANGED <<workerRef, pendingRef, idRef, readyRef, queueRef, posted, terminated, calls,
                selfPosted, files, sharedPassword, running, idCount, autoUnlockCalls, timers>>

\* Map.set, Map.delete and the empty Map of pendingRef.
EmptyMap == << >>

MapSet(map, key, value) ==
    [k \in (DOMAIN map) \cup {key} |-> IF k = key THEN value ELSE map[k]]

\* A delete that drops every entry of the registry.
MapDeleteAll(map, key) == EmptyMap

MapDelete(map, key) == [k \in (DOMAIN map) \ {key} |-> map[k]]

\* The value of a property of a message, Undefined when it has none.
Field(message, name) ==
    IF name \in DOMAIN message THEN message[name] ELSE Undefined

\* State after the component has mounted, the effect has created the worker and
\* the worker script has run to its end (its last statement posts "ready").
Init ==
    /\ workerRef = "worker"
    /\ pendingRef = EmptyMap
    /\ idRef = 0
    /\ readyRef = FALSE
    /\ queueRef = << >>
    /\ posted = << >>
    /\ terminated = FALSE
    /\ calls = [c \in CallIds |-> [pc |-> "idle"]]
    /\ event = [op |-> "mount"]
    /\ selfPosted = <<[message |-> [type |-> "ready"], transfer |-> << >>]>>
    /\ files = << >>
    /\ sharedPassword = ""
    /\ isReady = FALSE
    /\ running = {}
    /\ idCount = 0
    /\ autoUnlockCalls = << >>
    /\ timers = << >>
    /\ single = [password |-> "", status |-> "idle", errorMessage |-> << >>]
    /\ unlocking = {}
    /\ unlockCount = 0

\* resolve(result) of the promise of call c.
Resolve(cs, c, result) ==
    [cs EXCEPT ![c] = [pc |-> "done", result |-> result]]

\* ResultOf without the "needs-password" branch.
ResultOfNoNeedsPassword(message) ==
    IF message.type = "success"
    THEN [success |-> TRUE, data |-> Uint8Array(message.data)]
    ELSE [success |-> FALSE, error |-> Field(message, "error")]

\* ResultOf that reports a text of its own instead of the reply's error.
ResultOfOwnError(message) ==
    IF message.type = "success"
    THEN [success |-> TRUE, data |-> Uint8Array(message.data)]
    ELSE IF message.type = "needs-password"
    THEN [success |-> FALSE, needsPassword |-> TRUE]
    ELSE [success |-> FALSE, error |-> "Unknown error"]

\* The result each kind of reply resolves the promise with.
ResultOf(message) ==
    IF message.type = "success"
    THEN [success |-> TRUE, data |-> Uint8Array(message.data)]
    ELSE IF message.type = "needs-password"
    THEN [success |-> FALSE, needsPassword |-> TRUE]
    ELSE [success |-> FALSE, error |-> Field(message, "error")]

\* worker.onmessage whose "ready" branch leaves the queue as it is.
onmessageKeepQueue(message) ==
    /\ ~terminated
    /\ event' = [op |-> "onmessage", data |-> message]
    /\ IF message.type = "ready"
       THEN /\ readyRef' = TRUE
            /\ posted' = posted \o [i \in 1..Len(queueRef) |->
                            [message |-> queueRef[i].message,
                             transfer |-> queueRef[i].transfer]]
            /\ UNCHANGED <<queueRef, pendingRef, calls>>
       ELSE /\ IF message.id \in DOMAIN pendingRef
               THEN /\ pendingRef' = MapDelete(pendingRef, message.id)
                    /\ calls' = Resolve(calls, pendingRef[message.id], ResultOf(message))
               ELSE UNCHANGED <<pendingRef, calls>>
            /\ UNCHANGED <<readyRef, posted, queueRef>>
    /\ UNCHANGED <<workerRef, idRef, terminated>>

\* worker.onmessage that calls the resolver and leaves it in the registry.
onmessageKeepEntry(message) ==
    /\ ~terminated
    /\ event' = [op |-> "onmessage", data |-> message]
    /\ IF message.type = "ready"
       THEN /\ readyRef' = TRUE
            /\ posted' = posted \o [i \in 1..Len(queueRef) |->
                            [message |-> queueRef[i].message,
                             transfer |-> queueRef[i].transfer]]
            /\ queueRef' = << >>
            /\ UNCHANGED <<pendingRef, calls>>
       ELSE /\ IF message.id \in DOMAIN pendingRef
               THEN /\ calls' = Resolve(calls, pendingRef[message.id], ResultOf(message))
                    /\ UNCHANGED pendingRef
               ELSE UNCHANGED <<pendingRef, calls>>
            /\ UNCHANGED <<readyRef, posted, queueRef>>
    /\ UNCHANGED <<workerRef, idRef, terminated>>

\* worker.onmessage. A terminated worker delivers no further events.
onmessage(message) ==
    /\ ~terminated
    /\ event' = [op |-> "onmessage", data |-> message]
    /\ IF message.type = "ready"
       THEN /\ readyRef' = TRUE
            /\ posted' = posted \o [i \in 1..Len(queueRef) |->
                            [message |-> queueRef[i].message,
                             transfer |-> queueRef[i].transfer]]
            /\ queueRef' = << >>
            /\ UNCHANGED <<pendingRef, calls>>
       ELSE /\ IF message.id \in DOMAIN pendingRef
               THEN /\ pendingRef' = MapDelete(pendingRef, message.id)
                    /\ calls' = Resolve(calls, pendingRef[message.id], ResultOf(message))
               ELSE UNCHANGED <<pendingRef, calls>>
            /\ UNCHANGED <<readyRef, posted, queueRef>>
    /\ UNCHANGED <<workerRef, idRef, terminated>>

\* A call whose result is "Worker encountered an error" if it is pending.
FailPending(cs, pending) ==
    [c \in CallIds |->
        IF \E k \in DOMAIN pending : pending[k] = c
        THEN [pc |-> "done",
              result |-> [success |-> FALSE, error |-> "Worker encountered an error"]]
        ELSE cs[c]]

\* worker.onerror that resolves the promises and forgets to clear the registry.
onerrorKeepPending ==
    /\ ~terminated
    /\ event' = [op |-> "onerror"]
    /\ calls' = FailPending(calls, pendingRef)
    /\ UNCHANGED <<workerRef, pendingRef, idRef, readyRef, queueRef, posted, terminated>>

\* worker.onerror.
onerror ==
    /\ ~terminated
    /\ event' = [op |-> "onerror"]
    /\ calls' = FailPending(calls, pendingRef)
    /\ pendingRef' = EmptyMap
    /\ UNCHANGED <<workerRef, idRef, readyRef, queueRef, posted, terminated>>

\* A cleanup that terminates the worker and keeps the reference to it.
cleanupKeepWorker ==
    /\ ~terminated
    /\ event' = [op |-> "cleanup"]
    /\ terminated' = TRUE
    /\ pendingRef' = EmptyMap
    /\ readyRef' = FALSE
    /\ queueRef' = << >>
    /\ UNCHANGED <<workerRef, idRef, posted, calls>>

\* The cleanup function of the effect, run when the component unmounts.
cleanup ==
    /\ ~terminated
    /\ event' = [op |-> "cleanup"]
    /\ terminated' = TRUE
    /\ workerRef' = Null
    /\ pendingRef' = EmptyMap
    /\ readyRef' = FALSE
    /\ queueRef' = << >>
    /\ UNCHANGED <<idRef, posted, calls>>

\* sendMessage that does not wait for the worker to be ready.
sendMessageEager(message, transfer, id) ==
    IF workerRef = Null
    THEN UNCHANGED <<posted, queueRef>>
    ELSE /\ posted' = Append(posted, [message |-> message, transfer |-> transfer])
         /\ UNCHANGED queueRef

\* sendMessage(message, transfer, id).
sendMessage(message, transfer, id) ==
    IF workerRef = Null
    THEN UNCHANGED <<posted, queueRef>>
    ELSE IF readyRef
    THEN /\ posted' = Append(posted, [message |-> message, transfer |-> transfer])
         /\ UNCHANGED queueRef
    ELSE /\ queueRef' = Append(queueRef,
                            [message |-> message, transfer |-> transfer, id |-> id])
         /\ UNCHANGED posted

\* Calls are made one after the other: slot c is used once slot c-1 is.
NextCall(c) ==
    /\ calls[c].pc = "idle"
    /\ IF c = 1 THEN TRUE ELSE calls[c - 1].pc # "idle"

NotInitialized == [success |-> FALSE, error |-> "Worker not initialized"]

\* autoUnlock without the check of workerRef.current.
autoUnlockNoCheck(c, file) ==
    /\ NextCall(c)
    /\ event' = [op |-> "autoUnlock", call |-> c]
    /\ calls' = [calls EXCEPT ![c] =
                    [pc |-> "reading", type |-> "auto-unlock", file |-> file]]
    /\ UNCHANGED <<workerRef, pendingRef, idRef, readyRef, queueRef, posted, terminated>>

\* autoUnlock(file) up to its await of file.arrayBuffer().
autoUnlock(c, file) ==
    /\ NextCall(c)
    /\ event' = [op |-> "autoUnlock", call |-> c]
    /\ IF workerRef = Null
       THEN calls' = [calls EXCEPT ![c] = [pc |-> "done", result |-> NotInitialized]]
       ELSE calls' = [calls EXCEPT ![c] =
                        [pc |-> "reading", type |-> "auto-unlock", file |-> file]]
    /\ UNCHANGED <<workerRef, pendingRef, idRef, readyRef, queueRef, posted, terminated>>

\* autoUnlock that reads idRef.current without incrementing it.
autoUnlockReadSameId(c) ==
    /\ calls[c].pc = "reading"
    /\ calls[c].type = "auto-unlock"
    /\ event' = [op |-> "autoUnlockRead", call |-> c]
    /\ LET arrayBuffer == ArrayBuffer(c, FileBytes(calls[c].file))
           id == idRef
       IN /\ idRef' = idRef
          /\ pendingRef' = MapSet(pendingRef, id, c)
          /\ sendMessage([type |-> "auto-unlock", id |-> id, data |-> arrayBuffer],
                         <<arrayBuffer>>, id)
          /\ calls' = [calls EXCEPT ![c] = [pc |-> "pending", id |-> id]]
    /\ UNCHANGED <<workerRef, readyRef, terminated>>

\* autoUnlock after file.arrayBuffer() has resolved.
autoUnlockRead(c) ==
    /\ calls[c].pc = "reading"
    /\ calls[c].type = "auto-unlock"
    /\ event' = [op |-> "autoUnlockRead", call |-> c]
    /\ LET arrayBuffer == ArrayBuffer(c, FileBytes(calls[c].file))
           id == idRef
       IN /\ idRef' = idRef + 1
          /\ pendingRef' = MapSet(pendingRef, id, c)
          /\ sendMessage([type |-> "auto-unlock", id |-> id, data |-> arrayBuffer],
                         <<arrayBuffer>>, id)
          /\ calls' = [calls EXCEPT ![c] = [pc |-> "pending", id |-> id]]
    /\ UNCHANGED <<workerRef, readyRef, terminated>>

\* decrypt(file, password) up to its await of file.arrayBuffer().
decrypt(c, file, password) ==
    /\ NextCall(c)
    /\ event' = [op |-> "decrypt", call |-> c]
    /\ IF workerRef = Null
       THEN calls' = [calls EXCEPT ![c] = [pc |-> "done", result |-> NotInitialized]]
       ELSE calls' = [calls EXCEPT ![c] =
                        [pc |-> "reading", type |-> "decrypt", file |-> file,
                         password |-> password]]
    /\ UNCHANGED <<workerRef, pendingRef, idRef, readyRef, queueRef, posted, terminated>>

\* decrypt that leaves the password out of its message.
decryptReadNoPassword(c) ==
    /\ calls[c].pc = "reading"
    /\ calls[c].type = "decrypt"
    /\ event' = [op |-> "decryptRead", call |-> c]
    /\ LET arrayBuffer == ArrayBuffer(c, FileBytes(calls[c].file))
           id == idRef
       IN /\ idRef' = idRef + 1
          /\ pendingRef' = MapSet(pendingRef, id, c)
          /\ sendMessage([type |-> "decrypt", id |-> id, data |-> arrayBuffer],
                         <<arrayBuffer>>, id)
          /\ calls' = [calls EXCEPT ![c] = [pc |-> "pending", id |-> id]]
    /\ UNCHANGED <<workerRef, readyRef, terminated>>

\* decrypt after file.arrayBuffer() has resolved.
decryptRead(c) ==
    /\ calls[c].pc = "reading"
    /\ calls[c].type = "decrypt"
    /\ event' = [op |-> "decryptRead", call |-> c]
    /\ LET arrayBuffer == ArrayBuffer(c, FileBytes(calls[c].file))
           id == idRef
       IN /\ idRef' = idRef + 1
          /\ pendingRef' = MapSet(pendingRef, id, c)
          /\ sendMessage([type |-> "decrypt", id |-> id, data |-> arrayBuffer,
                          password |-> calls[c].password],
                         <<arrayBuffer>>, id)
          /\ calls' = [calls EXCEPT ![c] = [pc |-> "pending", id |-> id]]
    /\ UNCHANGED <<workerRef, readyRef, terminated>>

\* The replies delivered to the hook. The worker answers the requests that were
\* posted to it: a reply to a registered request comes after its message was
\* posted. A reply whose id has no resolver takes the same path whatever its
\* type and payload (the lookup fails), so one type of such replies is delivered.
Delivered(message) ==
    IF message.type = "ready"
    THEN TRUE
    ELSE IF message.id \in DOMAIN pendingRef
    THEN \E i \in 1..Len(posted) : posted[i].message.id = message.id
    ELSE message.type = "needs-password"

Next ==
    \/ \E message \in WorkerMessages : Delivered(message) /\ onmessage(message) /\ hookFrame
    \/ onerror /\ hookFrame
    \/ cleanup /\ hookFrame
    \/ \E c \in CallIds, file \in Files : autoUnlock(c, file) /\ hookFrame
    \/ \E c \in CallIds : autoUnlockRead(c) /\ hookFrame
    \/ \E c \in CallIds, file \in Files, password \in Passwords :
          decrypt(c, file, password) /\ hookFrame
    \/ \E c \in CallIds : decryptRead(c) /\ hookFrame

Spec == Init /\ [][Next]_vars

\* The worker sends its "ready"; it answers a request whose resolver is
\* registered; a file that is being read is read to its end.
WorkerReady == ~readyRef /\ onmessage([type |-> "ready"]) /\ hookFrame

WorkerAnswers ==
    \E message \in WorkerMessages \ {[type |-> "ready"]} :
        /\ message.id \in DOMAIN pendingRef
        /\ Delivered(message)
        /\ onmessage(message)
        /\ hookFrame

FileRead == \E c \in CallIds : (autoUnlockRead(c) \/ decryptRead(c)) /\ hookFrame

\* The hook with a worker that becomes ready and answers, and files that are
\* read to their end.
SpecLive ==
    Spec /\ WF_vars(WorkerReady) /\ WF_vars(WorkerAnswers) /\ WF_vars(FileRead)

----------------------------------------------------------------------------
(***************************************************************************)
(* The worker (src/unnamed/part_000 lines 89-206): one message in, the     *)
(* PDF library called on its bytes, one message out.                       *)
(***************************************************************************)

\* The user passwords of the encrypted documents.
DocPasswords == {"", "pass"}

\* What the PDF library makes of the bytes it is given: whether openDocument
\* returns ("ok") or throws (an Error, or a value that is no Error), what
\* needsPassword() answers, the password authenticatePassword accepts, whether
\* asPDF() returns a document, and whether saveToBuffer returns or throws.
Docs ==
    {[opens |-> o, needsPassword |-> FALSE, userPassword |-> "", pdf |-> TRUE, saves |-> TRUE] :
        o \in {"Error", "other"}}
    \cup {[opens |-> "ok", needsPassword |-> FALSE, userPassword |-> "", pdf |-> d, saves |-> s] :
        d \in BOOLEAN, s \in BOOLEAN}
    \cup {[opens |-> "ok", needsPassword |-> TRUE, userPassword |-> p, pdf |-> d, saves |-> s] :
        p \in DocPasswords, d \in BOOLEAN, s \in BOOLEAN}

\* The bytes saveToBuffer writes.
SavedBytes == <<9, 9, 9>>

\* A function's outcome: it returns a buffer, returns null, or throws.
Return(value) == [kind |-> "return", value |-> value]

ReturnNull == [kind |-> "null"]

Throw(error) == [kind |-> "throw", error |-> error]

\* new Error(message), and a thrown value that is not an Error.
Error(message) == [isError |-> TRUE, message |-> message]

NotAnError == [isError |-> FALSE]

\* mupdf.Document.openDocument(data, "application/pdf").
openDocument(doc) ==
    IF doc.opens = "ok" THEN Return(doc)
    ELSE IF doc.opens = "Error" THEN Throw(Error("Corrupt PDF"))
    ELSE Throw(NotAnError)

\* doc.authenticatePassword(password): 0 when the password is refused.
authenticatePassword(doc, password) ==
    IF password = doc.userPassword THEN 2 ELSE 0

\* pdfDoc.saveToBuffer(...) and the copy of its bytes into a new ArrayBuffer.
saveToBuffer(doc) ==
    IF doc.saves THEN Return(ArrayBuffer("reply", SavedBytes))
    ELSE Throw(Error("cannot write"))

tryAutoUnlock(doc) ==
    LET opened == openDocument(doc)
    IN IF opened.kind = "throw" THEN opened
       ELSE IF ~doc.needsPassword
       THEN (IF ~doc.pdf THEN ReturnNull ELSE saveToBuffer(doc))
       ELSE IF authenticatePassword(doc, "") > 0
       THEN (IF ~doc.pdf THEN ReturnNull ELSE saveToBuffer(doc))
       ELSE ReturnNull

\* A decryptPDF that authenticates whether or not the document needs a password.
decryptPDFAlwaysAuthenticates(doc, password) ==
    LET opened == openDocument(doc)
    IN IF opened.kind = "throw" THEN opened
       ELSE IF authenticatePassword(doc, password) = 0
       THEN Throw(Error("Incorrect password"))
       ELSE IF ~doc.pdf THEN Throw(Error("Not a valid PDF document"))
       ELSE saveToBuffer(doc)

decryptPDF(doc, password) ==
    LET opened == openDocument(doc)
    IN IF opened.kind = "throw" THEN opened
       ELSE IF doc.needsPassword /\ authenticatePassword(doc, password) = 0
       THEN Throw(Error("Incorrect password"))
       ELSE IF ~doc.pdf THEN Throw(Error("Not a valid PDF document"))
       ELSE saveToBuffer(doc)

\* error instanceof Error ? error.message : "Unknown error"
ErrorMessage(error) == IF error.isError THEN error.message ELSE "Unknown error"

\* self.postMessage(message, transfer) as an entry of selfPosted.
Post(message, transfer) == [message |-> message, transfer |-> transfer]

\* A handler whose try has no catch: what the library throws leaves the handler.
RespondNoCatch(message, doc) ==
    IF message.type = "auto-unlock"
    THEN LET result == tryAutoUnlock(doc)
         IN IF result.kind = "return"
            THEN <<Post([type |-> "success", id |-> message.id, data |-> result.value],
                        <<result.value>>)>>
            ELSE IF result.kind = "null"
            THEN <<Post([type |-> "needs-password", id |-> message.id], << >>)>>
            ELSE << >>
    ELSE IF message.type = "decrypt"
    THEN LET result == decryptPDF(doc, message.password)
         IN IF result.kind = "return"
            THEN <<Post([type |-> "success", id |-> message.id, data |-> result.value],
                        <<result.value>>)>>
            ELSE << >>
    ELSE << >>


\* What self.onmessage posts for a message whose bytes the library reads as doc.
Respond(message, doc) ==
    IF message.type = "auto-unlock"
    THEN LET result == tryAutoUnlock(doc)
         IN IF result.kind = "return"
            THEN <<Post([type |-> "success", id |-> message.id, data |-> result.value],
                        <<result.value>>)>>
            ELSE IF result.kind = "null"
            THEN <<Post([type |-> "needs-password", id |-> message.id], << >>)>>
            ELSE <<Post([type |-> "error", id |-> message.id,
                         error |-> ErrorMessage(result.error)], << >>)>>
    ELSE IF message.type = "decrypt"
    THEN LET result == decryptPDF(doc, message.password)
         IN IF result.kind = "return"
            THEN <<Post([type |-> "success", id |-> message.id, data |-> result.value],
                        <<result.value>>)>>
            ELSE <<Post([type |-> "error", id |-> message.id,
                         error |-> ErrorMessage(result.error)], << >>)>>
    ELSE << >>

\* event.data of the messages the worker receives: the two requests of the
\* hook, and a message of a type the worker does not know.
HookMessages ==
    {[type |-> "auto-unlock", id |-> i, data |-> ArrayBuffer(i + 1, FileBytes(f))] :
        i \in ReplyIds, f \in Files}
    \cup {[type |-> "decrypt", id |-> i, data |-> ArrayBuffer(i + 1, FileBytes(f)),
           password |-> p] : i \in ReplyIds, f \in Files, p \in Passwords}
    \cup {[type |-> "ping", id |-> i] : i \in ReplyIds}

\* self.onmessage, run to its end.
selfOnmessage(message, doc) ==
    /\ Len(selfPosted) <= MaxCalls
    /\ selfPosted' = selfPosted \o Respond(message, doc)
    /\ event' = [op |-> "self.onmessage", data |-> message, doc |-> doc]

NextWorker ==
    \E message \in HookMessages, doc \in Docs : selfOnmessage(message, doc) /\ workerFrame

SpecWorker == Init /\ [][NextWorker]_workerVars

----------------------------------------------------------------------------
(***************************************************************************)
(* The component (src/src/components/PDFUnlocker.tsx): the list of files,  *)
(* each processed by autoUnlock when it is added, the shared password that *)
(* decrypts the files that need one, the downloads and the reset.          *)
(* Texts that the code takes apart (file names, error texts) are tuples of *)
(* characters.                                                             *)
(***************************************************************************)

\* Number of PdfFile ids generated in one run.
MaxFiles == 2

\* The File objects the user selects or drops: a PDF by its name only, a PDF
\* by its MIME type only, and a text file whose name holds ".pdf" before its end.
OfferedFiles ==
    { [name |-> <<"b", ".", "p", "d", "f">>, type |-> ""],
      [name |-> <<"s", "c", "a", "n">>, type |-> "application/pdf"],
      [name |-> <<"a", ".", "p", "d", "f", ".", "t", "x", "t">>, type |-> "text/plain"] }

\* The lists of files of one selection or drop.
RECURSIVE SeqsUpTo(_, _)
SeqsUpTo(S, n) ==
    IF n = 0 THEN {<< >>}
    ELSE LET shorter == SeqsUpTo(S, n - 1)
         IN shorter \cup {Append(q, x) : q \in shorter, x \in S}

Batches == SeqsUpTo(OfferedFiles, MaxFiles) \ {<< >>}

\* The values typed into the password input.
TypedPasswords == {"", "secret123"}

\* Error texts of a DecryptResult, and the texts of the component.
WrongPassword == <<"W", "r", "o", "n", "g", " ", "p", "a", "s", "s", "w", "o", "r", "d">>

CorruptFile == <<"C", "o", "r", "r", "u", "p", "t", " ", "f", "i", "l", "e">>

FailedToProcess ==
    <<"F", "a", "i", "l", "e", "d", " ", "t", "o", " ", "p", "r", "o", "c", "e", "s", "s">>

IncorrectPassword ==
    <<"I", "n", "c", "o", "r", "r", "e", "c", "t", " ", "p", "a", "s", "s", "w", "o", "r", "d">>

\* The bytes of the unlocked copy of a file: each file has its own.
UnlockedBytes(f) == <<9, 9, Len(f.name)>>

\* What the promise of autoUnlock(f) or decrypt(f, password) resolves with: the
\* results the hook builds, a success carrying the unlocked copy of f. An
\* "error" reply without a text gives a result without error.
DecryptResults(f) ==
    {[success |-> TRUE, data |-> Uint8Array(ArrayBuffer("reply", UnlockedBytes(f)))]}
    \cup {[success |-> FALSE, needsPassword |-> TRUE]}
    \cup {[success |-> FALSE, error |-> e] : e \in {WrongPassword, CorruptFile}}
    \cup {[success |-> FALSE]}

\* String.prototype.endsWith and String.prototype.includes.
endsWith(text, suffix) ==
    /\ Len(text) >= Len(suffix)
    /\ SubSeq(text, Len(text) - Len(suffix) + 1, Len(text)) = suffix

includes(text, pattern) ==
    \E i \in 1..(Len(text) - Len(pattern) + 1) :
        SubSeq(text, i, i + Len(pattern) - 1) = pattern

\* A filter that accepts a file by its MIME type only.
isPdfByType(f) == f.type = "application/pdf"

\* The filter of addFiles.
isPdf(f) == f.type = "application/pdf" \/ endsWith(f.name, <<".", "p", "d", "f">>)

\* A spread that takes the status of the patch and nothing else.
SpreadStatusOnly(f, patch, undefs) == [f EXCEPT !.status = patch.status]

\* { ...f, ...patch }, the properties of undefs being set to undefined.
Spread(f, patch, undefs) ==
    [key \in ((DOMAIN f) \cup (DOMAIN patch)) \ undefs |->
        IF key \in DOMAIN patch THEN patch[key] ELSE f[key]]

\* An update that matches the file by its File instead of its id.
mapByFile(prev, pdfFile, patch, undefs) ==
    [k \in 1..Len(prev) |->
        IF prev[k].file = pdfFile.file THEN Spread(prev[k], patch, undefs) ELSE prev[k]]

\* prev.map((f) => f.id === pdfFile.id ? { ...f, ...patch } : f)
mapById(prev, pdfFile, patch, undefs) ==
    [k \in 1..Len(prev) |->
        IF prev[k].id = pdfFile.id THEN Spread(prev[k], patch, undefs) ELSE prev[k]]

\* files.filter((f) => f.status === status)
IsStatus(f, statuses) == f.status \in statuses

filterStatus(list, statuses) ==
    LET Test(f) == IsStatus(f, statuses) IN SelectSeq(list, Test)

\* The values derived from files at each render.
totalFiles == Len(files)

\* A count of processed files that leaves out the files in error.
processedFilesNoError == Len(filterStatus(files, {"unlocked", "needs-password"}))

processedFiles == Len(filterStatus(files, {"unlocked", "needs-password", "error"}))

unlockedFiles == filterStatus(files, {"unlocked"})

needsPasswordFiles == filterStatus(files, {"needs-password"})

progress == IF totalFiles > 0 THEN (processedFiles * 100) \div totalFiles ELSE 0

isProcessing == \E k \in 1..Len(files) : files[k].status \in {"queued", "processing"}

\* What is rendered.
DropZoneShown == Len(files) = 0

ProgressShown == Len(files) # 0 /\ isProcessing

PasswordFormShown == Len(files) # 0 /\ Len(needsPasswordFiles) > 0 /\ ~isProcessing

\* A button shown as soon as one file is unlocked.
DownloadAllShownForOne == Len(files) # 0 /\ Len(unlockedFiles) > 0

DownloadAllShown == Len(files) # 0 /\ Len(unlockedFiles) > 1

\* The hook has received "ready": setIsReady(true).
ready ==
    /\ ~isReady
    /\ isReady' = TRUE
    /\ event' = [op |-> "ready"]
    /\ UNCHANGED <<files, sharedPassword, running, idCount, autoUnlockCalls, timers>>

\* The part of the PdfFile that the awaiting functions read.
Captured(pdfFile) == [id |-> pdfFile.id, file |-> pdfFile.file]


\* addFiles, with processFile up to its await on each new file when isReady.
addFiles(newFiles) ==
    LET accepted == SelectSeq(newFiles, isPdf)
        pdfFiles == [k \in 1..Len(accepted) |->
                        [id |-> idCount + k, file |-> accepted[k],
                         status |-> "queued", selected |-> FALSE]]
    IN /\ idCount + Len(accepted) <= MaxFiles
       /\ event' = [op |-> "addFiles", newFiles |-> newFiles, pdfFiles |-> pdfFiles]
       /\ idCount' = idCount + Len(pdfFiles)
       /\ IF Len(pdfFiles) = 0
          THEN UNCHANGED <<files, running, autoUnlockCalls>>
          ELSE IF isReady
          THEN /\ files' = files \o [k \in 1..Len(pdfFiles) |->
                                        [pdfFiles[k] EXCEPT !.status = "processing"]]
               /\ running' = running \cup
                     {[fn |-> "processFile", pdfFile |-> Captured(pdfFiles[k])] :
                         k \in 1..Len(pdfFiles)}
               /\ autoUnlockCalls' = autoUnlockCalls \o
                     [k \in 1..Len(pdfFiles) |-> Captured(pdfFiles[k])]
          ELSE /\ files' = files \o pdfFiles
               /\ UNCHANGED <<running, autoUnlockCalls>>
       /\ UNCHANGED <<sharedPassword, isReady, timers>>

\* A processFile that takes every result without data for an error.
processedNoNeedsPassword(prev, pdfFile, result) ==
    IF result.success /\ "data" \in DOMAIN result
    THEN mapById(prev, pdfFile, [status |-> "unlocked", unlockedData |-> result.data], {})
    ELSE mapById(prev, pdfFile,
                 [status |-> "error",
                  errorMessage |-> IF "error" \in DOMAIN result /\ result.error # << >>
                                   THEN result.error ELSE FailedToProcess], {})

\* The files after processFile has its result.
processed(prev, pdfFile, result) ==
    IF result.success /\ "data" \in DOMAIN result
    THEN mapById(prev, pdfFile, [status |-> "unlocked", unlockedData |-> result.data], {})
    ELSE IF "needsPassword" \in DOMAIN result /\ result.needsPassword
    THEN mapById(prev, pdfFile, [status |-> "needs-password"], {})
    ELSE mapById(prev, pdfFile,
                 [status |-> "error",
                  errorMessage |-> IF "error" \in DOMAIN result /\ result.error # << >>
                                   THEN result.error ELSE FailedToProcess], {})

\* processFile from the point where the promise of autoUnlock resolves.
processFile(task, result) ==
    /\ task \in running
    /\ task.fn = "processFile"
    /\ files' = processed(files, task.pdfFile, result)
    /\ running' = running \ {task}
    /\ event' = [op |-> "processFile", pdfFile |-> task.pdfFile, result |-> result]
    /\ UNCHANGED <<sharedPassword, isReady, idCount, autoUnlockCalls, timers>>

\* onChange of the password input.
setSharedPassword(value) ==
    /\ PasswordFormShown
    /\ sharedPassword' = value
    /\ event' = [op |-> "setSharedPassword"]
    /\ UNCHANGED <<files, isReady, running, idCount, autoUnlockCalls, timers>>

\* The call of decrypt a step makes, as a sequence of none or one call.
decryptCall(pdfFile, password) == <<[pdfFile |-> pdfFile, password |-> password]>>

\* A submission that also sets the files in error to "processing".
handleUnlockWithPasswordRetryErrors ==
    /\ PasswordFormShown
    /\ IF sharedPassword = ""
       THEN /\ event' = [op |-> "handleUnlockWithPassword", step |-> "return",
                         decrypt |-> << >>]
            /\ UNCHANGED <<files, running>>
       ELSE LET needsPassword ==
                    [k \in 1..Len(needsPasswordFiles) |-> Captured(needsPasswordFiles[k])]
            IN /\ files' = [k \in 1..Len(files) |->
                               IF files[k].status \in {"needs-password", "error"}
                               THEN [files[k] EXCEPT !.status = "processing"]
                               ELSE files[k]]
               /\ running' = running \cup
                     {[fn |-> "handleUnlockWithPassword", needsPassword |-> needsPassword,
                       i |-> 1, sharedPassword |-> sharedPassword]}
               /\ event' = [op |-> "handleUnlockWithPassword", step |-> "submit",
                            needsPassword |-> needsPassword,
                            decrypt |-> decryptCall(needsPassword[1], sharedPassword)]
    /\ UNCHANGED <<sharedPassword, isReady, idCount, autoUnlockCalls, timers>>

\* handleUnlockWithPassword up to its first await.
handleUnlockWithPassword ==
    /\ PasswordFormShown
    /\ IF sharedPassword = ""
       THEN /\ event' = [op |-> "handleUnlockWithPassword", step |-> "return",
                         decrypt |-> << >>]
            /\ UNCHANGED <<files, running>>
       ELSE LET needsPassword ==
                    [k \in 1..Len(needsPasswordFiles) |-> Captured(needsPasswordFiles[k])]
            IN /\ files' = [k \in 1..Len(files) |->
                               IF files[k].status = "needs-password"
                               THEN [files[k] EXCEPT !.status = "processing"]
                               ELSE files[k]]
               /\ running' = running \cup
                     {[fn |-> "handleUnlockWithPassword", needsPassword |-> needsPassword,
                       i |-> 1, sharedPassword |-> sharedPassword]}
               /\ event' = [op |-> "handleUnlockWithPassword", step |-> "submit",
                            needsPassword |-> needsPassword,
                            decrypt |-> decryptCall(needsPassword[1], sharedPassword)]
    /\ UNCHANGED <<sharedPassword, isReady, idCount, autoUnlockCalls, timers>>

\* A failed decrypt that puts the file in error, as a failed autoUnlock does.
decryptedToError(prev, pdfFile, result) ==
    IF result.success /\ "data" \in DOMAIN result
    THEN mapById(prev, pdfFile, [status |-> "unlocked", unlockedData |-> result.data], {})
    ELSE mapById(prev, pdfFile,
                 [status |-> "error",
                  errorMessage |-> IF "error" \in DOMAIN result
                                   THEN result.error ELSE FailedToProcess], {})

\* The files after one decrypt of handleUnlockWithPassword has its result.
decrypted(prev, pdfFile, result) ==
    IF result.success /\ "data" \in DOMAIN result
    THEN mapById(prev, pdfFile, [status |-> "unlocked", unlockedData |-> result.data], {})
    ELSE IF "error" \in DOMAIN result
    THEN mapById(prev, pdfFile,
                 [status |-> "needs-password",
                  errorMessage |-> IF includes(result.error,
                                               <<"p", "a", "s", "s", "w", "o", "r", "d">>)
                                   THEN IncorrectPassword ELSE result.error], {})
    ELSE mapById(prev, pdfFile, [status |-> "needs-password"], {"errorMessage"})

\* A loop that gives up the files after the one whose decrypt failed.
unlockNextStopOnFailure(task, result) ==
    /\ task \in running
    /\ task.fn = "handleUnlockWithPassword"
    /\ files' = decrypted(files, task.needsPassword[task.i], result)
    /\ IF task.i < Len(task.needsPassword) /\ result.success
       THEN /\ running' = (running \ {task}) \cup {[task EXCEPT !.i = task.i + 1]}
            /\ event' = [op |-> "handleUnlockWithPassword", step |-> "resume", task |-> task,
                         result |-> result,
                         decrypt |-> decryptCall(task.needsPassword[task.i + 1],
                                                 task.sharedPassword)]
       ELSE /\ running' = running \ {task}
            /\ event' = [op |-> "handleUnlockWithPassword", step |-> "resume", task |-> task,
                         result |-> result, decrypt |-> << >>]
    /\ UNCHANGED <<sharedPassword, isReady, idCount, autoUnlockCalls, timers>>

\* handleUnlockWithPassword from the point where the promise of a decrypt
\* resolves to its next await, or to its end.
unlockNext(task, result) ==
    /\ task \in running
    /\ task.fn = "handleUnlockWithPassword"
    /\ files' = decrypted(files, task.needsPassword[task.i], result)
    /\ IF task.i < Len(task.needsPassword)
       THEN /\ running' = (running \ {task}) \cup {[task EXCEPT !.i = task.i + 1]}
            /\ event' = [op |-> "handleUnlockWithPassword", step |-> "resume", task |-> task,
                         result |-> result,
                         decrypt |-> decryptCall(task.needsPassword[task.i + 1],
                                                 task.sharedPassword)]
       ELSE /\ running' = running \ {task}
            /\ event' = [op |-> "handleUnlockWithPassword", step |-> "resume", task |-> task,
                         result |-> result, decrypt |-> << >>]
    /\ UNCHANGED <<sharedPassword, isReady, idCount, autoUnlockCalls, timers>>


\* "Clear all".
handleReset ==
    /\ Len(files) # 0
    /\ files' = << >>
    /\ sharedPassword' = ""
    /\ event' = [op |-> "handleReset"]
    /\ UNCHANGED <<isReady, running, idCount, autoUnlockCalls, timers>>

\* The files a download is scheduled for.
HasData(f) == f.status = "unlocked" /\ "unlockedData" \in DOMAIN f


\* "Download all": one timer per unlocked file, in list order. One batch of
\* timers is pending at a time.
handleDownloadAll ==
    /\ DownloadAllShown
    /\ timers = << >>
    /\ timers' = SelectSeq(files, HasData)
    /\ event' = [op |-> "handleDownloadAll"]
    /\ UNCHANGED <<files, sharedPassword, isReady, running, idCount, autoUnlockCalls>>

\* A timer of handleDownloadAll fires: downloadFile(f).
downloadFile ==
    /\ timers # << >>
    /\ timers' = Tail(timers)
    /\ event' = [op |-> "downloadFile", pdfFile |-> Head(timers),
                 saved |-> "unlockedData" \in DOMAIN Head(timers)]
    /\ UNCHANGED <<files, sharedPassword, isReady, running, idCount, autoUnlockCalls>>

\* The file whose autoUnlock or decrypt a running function awaits.
Awaited(task) ==
    IF task.fn = "processFile" THEN task.pdfFile ELSE task.needsPassword[task.i]

NextUI ==
    \/ ready /\ uiFrame
    \/ \E newFiles \in Batches : addFiles(newFiles) /\ uiFrame
    \/ \E task \in running :
          \E result \in DecryptResults(Awaited(task).file) :
              processFile(task, result) /\ uiFrame
    \/ \E value \in TypedPasswords : setSharedPassword(value) /\ uiFrame
    \/ handleUnlockWithPassword /\ uiFrame
    \/ \E task \in running :
          \E result \in DecryptResults(Awaited(task).file) :
              unlockNext(task, result) /\ uiFrame
    \/ handleReset /\ uiFrame
    \/ handleDownloadAll /\ uiFrame
    \/ downloadFile /\ uiFrame

SpecUI == Init /\ [][NextUI]_uiVars

-----------------------------------------------------------------------------
\* The single-file component (src/unnamed/part_005). A state that is null
\* (file, unlockedPdf) is a field that the record single does not have; the
\* texts are tuples of characters.

\* The most handleUnlock calls that reach their await.
MaxUnlocks == 2

\* The error text of the hook's worker.onerror.
WorkerEncounteredAnError ==
    <<"W", "o", "r", "k", "e", "r", " ", "e", "n", "c", "o", "u", "n", "t", "e", "r", "e", "d",
      " ", "a", "n", " ", "e", "r", "r", "o", "r">>

\* The texts that handleUnlock shows.
IncorrectPasswordTryAgain ==
    <<"I", "n", "c", "o", "r", "r", "e", "c", "t", " ", "p", "a", "s", "s", "w", "o", "r", "d",
      ".", " ", "P", "l", "e", "a", "s", "e", " ", "t", "r", "y", " ", "a", "g", "a", "i", "n",
      ".">>

UnsupportedEncryption ==
    <<"T", "h", "i", "s", " ", "P", "D", "F", " ", "u", "s", "e", "s", " ", "u", "n", "s", "u",
      "p", "p", "o", "r", "t", "e", "d", " ", "e", "n", "c", "r", "y", "p", "t", "i", "o", "n",
      ".">>

ProcessorIsLoading ==
    <<"P", "D", "F", " ", "p", "r", "o", "c", "e", "s", "s", "o", "r", " ", "i", "s", " ", "l",
      "o", "a", "d", "i", "n", "g", ".", " ", "P", "l", "e", "a", "s", "e", " ", "t", "r", "y",
      " ", "a", "g", "a", "i", "n", ".">>

FailedToUnlock ==
    <<"F", "a", "i", "l", "e", "d", " ", "t", "o", " ", "u", "n", "l", "o", "c", "k", " ", "P",
      "D", "F", ".">>

\* String.prototype.toLowerCase, on the capitals that the texts have.
toLowerCase(text) ==
    [k \in 1..Len(text) |->
        CASE text[k] = "C" -> "c"
          [] text[k] = "D" -> "d"
          [] text[k] = "F" -> "f"
          [] text[k] = "I" -> "i"
          [] text[k] = "P" -> "p"
          [] text[k] = "T" -> "t"
          [] text[k] = "W" -> "w"
          [] OTHER -> text[k]]

\* String.prototype.replace with a string pattern: the first occurrence only.
replace(text, pattern, replacement) ==
    IF includes(text, pattern)
    THEN LET i == CHOOSE k \in 1..(Len(text) - Len(pattern) + 1) :
                      /\ SubSeq(text, k, k + Len(pattern) - 1) = pattern
                      /\ \A l \in 1..(k - 1) : SubSeq(text, l, l + Len(pattern) - 1) # pattern
         IN SubSeq(text, 1, i - 1) \o replacement \o SubSeq(text, i + Len(pattern), Len(text))
    ELSE text

\* The state setters of one handler run: patch gives the new values, nulls
\* the states set to null.
setStates(prev, patch, nulls) ==
    [key \in ((DOMAIN prev) \cup (DOMAIN patch)) \ nulls |->
        IF key \in DOMAIN patch THEN patch[key] ELSE prev[key]]

\* What the promise of decrypt(f, password) resolves with in this component:
\* the results of the worker's "decrypt" replies and of worker.onerror.
UnlockResults(f) ==
    (DecryptResults(f) \ {[success |-> FALSE, needsPassword |-> TRUE]})
    \cup {[success |-> FALSE, error |-> WorkerEncounteredAnError]}

\* The DropZone is rendered; otherwise the file's card with "Remove file" is.
SingleDropZoneShown == "file" \notin DOMAIN single

\* The password input and the Unlock button are rendered.
PasswordSectionShown == ~SingleDropZoneShown /\ single.status # "unlocked"

\* setFile(f); setStatus("idle"); setErrorMessage(""); setUnlockedPdf(null).
selectFile(f) ==
    single' = setStates(single, [file |-> f, status |-> "idle", errorMessage |-> << >>],
                        {"unlockedPdf"})

\* handleDrop with the first file of the drop.
handleDrop(droppedFile) ==
    /\ SingleDropZoneShown
    /\ IF droppedFile.type = "application/pdf"
       THEN selectFile(droppedFile)
       ELSE UNCHANGED single
    /\ event' = [op |-> "handleDrop", droppedFile |-> droppedFile]
    /\ UNCHANGED <<unlocking, unlockCount, isReady>>

\* handleFileSelect with the file chosen in the input of the DropZone.
handleFileSelect(selectedFile) ==
    /\ SingleDropZoneShown
    /\ selectFile(selectedFile)
    /\ event' = [op |-> "handleFileSelect", selectedFile |-> selectedFile]
    /\ UNCHANGED <<unlocking, unlockCount, isReady>>

\* onChange of the password input.
setPassword(value) ==
    /\ PasswordSectionShown
    /\ single' = [single EXCEPT !.password = value]
    /\ event' = [op |-> "setPassword", value |-> value]
    /\ UNCHANGED <<unlocking, unlockCount, isReady>>

\* handleUnlock up to its await, called by the Unlock button, which is
\* disabled without a password, while loading and before isReady, or by the
\* Enter key in the password input.
handleUnlock(via) ==
    /\ PasswordSectionShown
    /\ via = "button" => (single.password # "" /\ single.status # "loading" /\ isReady)
    /\ IF single.password = ""
       THEN /\ event' = [op |-> "handleUnlock", step |-> "return", via |-> via]
            /\ UNCHANGED <<single, unlocking, unlockCount>>
       ELSE /\ unlockCount < MaxUnlocks
            /\ single' = [single EXCEPT !.status = "loading", !.errorMessage = << >>]
            /\ unlockCount' = unlockCount + 1
            /\ unlocking' = unlocking \cup
                  {[n |-> unlockCount + 1, file |-> single.file, password |-> single.password]}
            /\ event' = [op |-> "handleUnlock", step |-> "await", via |-> via,
                         file |-> single.file, password |-> single.password]
    /\ UNCHANGED isReady

\* The text that handleUnlock shows for a result that is not a success.
UnlockErrorMessage(result) ==
    LET errorMsg == IF "error" \in DOMAIN result THEN toLowerCase(result.error) ELSE << >>
    IN IF \/ includes(errorMsg, toLowerCase(IncorrectPassword))
          \/ includes(errorMsg, <<"p", "a", "s", "s", "w", "o", "r", "d">>)
       THEN IncorrectPasswordTryAgain
       ELSE IF includes(errorMsg, <<"e", "n", "c", "r", "y", "p", "t", "e", "d">>)
       THEN UnsupportedEncryption
       ELSE IF includes(errorMsg, <<"w", "o", "r", "k", "e", "r">>)
       THEN ProcessorIsLoading
       ELSE IF "error" \in DOMAIN result /\ result.error # << >>
       THEN result.error
       ELSE FailedToUnlock

\* handleUnlock from the result of decrypt on.
handleUnlockResume(call, result) ==
    /\ call \in unlocking
    /\ unlocking' = unlocking \ {call}
    /\ IF result.success /\ "data" \in DOMAIN result
       THEN single' = setStates(single, [unlockedPdf |-> result.data, status |-> "unlocked"], {})
       ELSE single' = setStates(single, [status |-> "error",
                                         errorMessage |-> UnlockErrorMessage(result)], {})
    /\ event' = [op |-> "handleUnlock", step |-> "resume", call |-> call, result |-> result]
    /\ UNCHANGED <<unlockCount, isReady>>

\* handleDownload, by the Download button of the "unlocked" status.
handleDownload ==
    /\ ~SingleDropZoneShown
    /\ single.status = "unlocked"
    /\ IF "unlockedPdf" \in DOMAIN single
       THEN event' = [op |-> "handleDownload", saved |-> TRUE,
                      bytes |-> single.unlockedPdf.buffer.bytes,
                      download |-> replace(single.file.name, <<".", "p", "d", "f">>,
                                           <<"_", "u", "n", "l", "o", "c", "k", "e", "d",
                                             ".", "p", "d", "f">>)]
       ELSE event' = [op |-> "handleDownload", saved |-> FALSE]
    /\ UNCHANGED <<single, unlocking, unlockCount, isReady>>

\* handleReset of this component, by "Remove file" or "Unlock another".
handleResetSingle ==
    /\ ~SingleDropZoneShown
    /\ single' = setStates(single, [password |-> "", status |-> "idle",
                                    errorMessage |-> << >>], {"file", "unlockedPdf"})
    /\ event' = [op |-> "handleReset", component |-> "single"]
    /\ UNCHANGED <<unlocking, unlockCount, isReady>>

NextSingle ==
    \/ ready /\ UNCHANGED <<single, unlocking, unlockCount>> /\ singleFrame
    \/ \E droppedFile \in OfferedFiles : handleDrop(droppedFile) /\ singleFrame
    \/ \E selectedFile \in OfferedFiles : handleFileSelect(selectedFile) /\ singleFrame
    \/ \E value \in TypedPasswords : setPassword(value) /\ singleFrame
    \/ \E via \in {"button", "Enter"} : handleUnlock(via) /\ singleFrame
    \/ \E call \in unlocking :
          \E result \in UnlockResults(call.file) :
              handleUnlockResume(call, result) /\ singleFrame
    \/ handleDownload /\ singleFrame
    \/ handleResetSingle /\ singleFrame

SpecSingle == Init /\ [][NextSingle]_singleVars

----------------------------------------------------------------------------
\* The step just taken is the second half of autoUnlock or decrypt.
ReadOps == {"autoUnlockRead", "decryptRead"}

\* The messages of a queue, as worker.postMessage receives them.
Flushed(queue) ==
    [i \in 1..Len(queue) |-> [message |-> queue[i].message, transfer |-> queue[i].transfer]]

\* The ids of a sequence of posted or queued messages.
IdsOf(seq) == [i \in 1..Len(seq) |-> seq[i].message.id]

NoRepeat(seq) == \A i, j \in 1..Len(seq) : seq[i] = seq[j] => i = j

\* C1: while the worker has not sent "ready", nothing is posted to it; a call
\* that finishes reading its file before "ready" leaves the posted messages as
\* they are and appends exactly its own message to the queue.
C1_QueueUntilReady ==
    [][/\ (~terminated' /\ ~readyRef') => posted' = << >>
       /\ (event'.op \in ReadOps /\ ~readyRef /\ ~terminated) =>
             /\ posted' = posted
             /\ Len(queueRef') = Len(queueRef) + 1
             /\ SubSeq(queueRef', 1, Len(queueRef)) = queueRef
             /\ queueRef'[Len(queueRef')].id = idRef
             /\ queueRef'[Len(queueRef')].message.id = idRef
             /\ pendingRef'[idRef] = event'.call]_vars

\* Two calls, in either order of reading, are queued and nothing is posted.
C1_Witness ==
    /\ ~readyRef /\ ~terminated
    /\ Len(queueRef) = 2
    /\ posted = << >>
    /\ event.op \in ReadOps
    /\ event.call = 1

\* C2: "ready" posts the queued messages once each, in queue order, and empties
\* the queue; no message is ever posted twice; a request sent once the hook is
\* ready is posted at once and not queued.
C2_FlushOnReady ==
    [][/\ (event'.op = "onmessage" /\ event'.data.type = "ready") =>
             /\ posted' = posted \o Flushed(queueRef)
             /\ queueRef' = << >>
             /\ readyRef'
       /\ NoRepeat(IdsOf(posted') \o IdsOf(queueRef'))
       /\ (event'.op \in ReadOps /\ readyRef) =>
             /\ queueRef' = queueRef
             /\ Len(posted') = Len(posted) + 1
             /\ SubSeq(posted', 1, Len(posted)) = posted
             /\ posted'[Len(posted')].message.id = idRef]_vars

\* "ready" has just flushed two queued messages, oldest first.
C2_Witness ==
    /\ event.op = "onmessage"
    /\ event.data.type = "ready"
    /\ Len(posted) = 2
    /\ posted[1].message.id = 0
    /\ posted[2].message.id = 1
    /\ queueRef = << >>

\* C3: a reply with id i settles the call that was assigned id i and removes
\* its entry; every other call and every other entry of the registry is as it was.
C3_ReplyResolvesOwnRequest ==
    [][(event'.op = "onmessage" /\ event'.data.type # "ready") =>
          LET i == event'.data.id IN
          /\ DOMAIN pendingRef' = (DOMAIN pendingRef) \ {i}
          /\ \A k \in DOMAIN pendingRef' : pendingRef'[k] = pendingRef[k]
          /\ \A c \in CallIds :
                IF calls[c].pc = "pending" /\ calls[c].id = i /\ i \in DOMAIN pendingRef
                THEN calls'[c].pc = "done"
                ELSE calls'[c] = calls[c]]_vars

\* The reply to the second request arrives while the first is still pending.
C3_Witness ==
    /\ event.op = "onmessage"
    /\ event.data.type = "success"
    /\ event.data.id = 1
    /\ \E c, d \in CallIds :
          /\ calls[c].pc = "done"
          /\ calls[c].result.success
          /\ calls[d].pc = "pending"
          /\ calls[d].id = 0
          /\ 0 \in DOMAIN pendingRef
          /\ pendingRef[0] = d

\* The step just taken is worker.onmessage, for a reply of one of the given
\* types whose id has a resolver in the registry.
Answered(types) ==
    /\ event'.op = "onmessage"
    /\ event'.data.type \in types
    /\ event'.data.id \in DOMAIN pendingRef

\* The result the call that the reply answers is resolved with.
Answer == calls'[pendingRef[event'.data.id]]

\* C4: a "success" reply to a pending request resolves it with success = true
\* and data a byte array over the reply's buffer, of the buffer's length.
C4_SuccessResult ==
    [][Answered({"success"}) =>
          /\ Answer.pc = "done"
          /\ DOMAIN Answer.result = {"success", "data"}
          /\ Answer.result.success = TRUE
          /\ Answer.result.data.buffer = event'.data.data
          /\ Answer.result.data.length = Len(event'.data.data.bytes)]_vars

\* A call has been resolved with the bytes of the "success" reply just handled.
C4_Witness ==
    /\ event.op = "onmessage"
    /\ event.data.type = "success"
    /\ event.data.id \notin DOMAIN pendingRef
    /\ \E c \in CallIds :
          /\ calls[c].pc = "done"
          /\ calls[c].result.success
          /\ calls[c].result.data.buffer.bytes = <<9, 9, 9>>
          /\ calls[c].result.data.length = 3

\* C5: a "needs-password" reply to a pending request resolves it with
\* success = false and needsPassword = true and nothing else.
C5_NeedsPasswordResult ==
    [][Answered({"needs-password"}) =>
          /\ Answer.pc = "done"
          /\ DOMAIN Answer.result = {"success", "needsPassword"}
          /\ Answer.result.success = FALSE
          /\ Answer.result.needsPassword = TRUE]_vars

\* A call has been resolved by the "needs-password" reply just handled.
C5_Witness ==
    /\ event.op = "onmessage"
    /\ event.data.type = "needs-password"
    /\ event.data.id \notin DOMAIN pendingRef
    /\ \E c \in CallIds :
          /\ calls[c].pc = "done"
          /\ "needsPassword" \in DOMAIN calls[c].result

\* C6: a reply of type "error", or of a type the hook does not know, to a
\* pending request resolves it with success = false and the reply's error.
C6_ErrorResult ==
    [][Answered({"error", "progress"}) =>
          /\ Answer.pc = "done"
          /\ DOMAIN Answer.result = {"success", "error"}
          /\ Answer.result.success = FALSE
          /\ Answer.result.error = Field(event'.data, "error")]_vars

\* A call has been resolved with the text of the "error" reply just handled.
C6_Witness ==
    /\ event.op = "onmessage"
    /\ event.data.type = "error"
    /\ event.data.id \notin DOMAIN pendingRef
    /\ \E c \in CallIds :
          /\ calls[c].pc = "done"
          /\ ~calls[c].result.success
          /\ "error" \in DOMAIN calls[c].result
          /\ calls[c].result.error = "Corrupt PDF"
          /\ calls[c].result.error = event.data.error

WorkerError == [success |-> FALSE, error |-> "Worker encountered an error"]

\* C7: the worker's error event resolves every call that has a resolver in the
\* registry with "Worker encountered an error", leaves the other calls alone
\* and empties the registry.
C7_WorkerErrorFailsPending ==
    [][event'.op = "onerror" =>
          /\ pendingRef' = EmptyMap
          /\ \A c \in CallIds :
                IF \E k \in DOMAIN pendingRef : pendingRef[k] = c
                THEN calls'[c] = [pc |-> "done", result |-> WorkerError]
                ELSE calls'[c] = calls[c]]_vars

\* The error event has failed two pending requests at once.
C7_Witness ==
    /\ event.op = "onerror"
    /\ pendingRef = EmptyMap
    /\ idRef = 2
    /\ calls[1] = [pc |-> "done", result |-> WorkerError]
    /\ calls[2] = [pc |-> "done", result |-> WorkerError]

\* C8: autoUnlock and decrypt called while workerRef.current is null resolve at
\* once with "Worker not initialized" and change nothing else.
C8_NotInitialized ==
    [][(event'.op \in {"autoUnlock", "decrypt"} /\ workerRef = Null) =>
          /\ calls'[event'.call] = [pc |-> "done", result |-> NotInitialized]
          /\ \A c \in CallIds \ {event'.call} : calls'[c] = calls[c]
          /\ UNCHANGED <<idRef, pendingRef, queueRef, posted>>]_vars

\* After unmount, one autoUnlock and one decrypt have been turned away.
C8_Witness ==
    /\ workerRef = Null
    /\ event.op = "decrypt"
    /\ event.call = 2
    /\ idRef = 0
    /\ calls[1] = [pc |-> "done", result |-> NotInitialized]
    /\ calls[2] = [pc |-> "done", result |-> NotInitialized]

\* C9: the cleanup terminates the worker, nulls the reference, empties the
\* registry and the queue and clears the ready flag; from then on nothing is
\* posted to the worker.
C9_CleanupResets ==
    [][/\ event'.op = "cleanup" =>
             /\ terminated'
             /\ workerRef' = Null
             /\ pendingRef' = EmptyMap
             /\ readyRef' = FALSE
             /\ queueRef' = << >>
       /\ terminated' => posted' = posted]_vars

\* A call finishes reading its file after the unmount; its message goes nowhere.
C9_Witness ==
    /\ terminated
    /\ event.op \in ReadOps
    /\ Len(posted) = 1
    /\ queueRef = << >>

\* The message a call has just sent: posted if the hook was ready, else queued.
SentNow == IF readyRef THEN posted'[Len(posted')] ELSE queueRef'[Len(queueRef')]

\* C10: the message of a decrypt call has type "decrypt" and the caller's
\* password, the message of an autoUnlock call type "auto-unlock" and no
\* password; both carry the id the resolver is registered under and a buffer
\* with the file's bytes, which is the one buffer of the transfer list.
C10_MessageContents ==
    [][(event'.op \in ReadOps /\ workerRef # Null) =>
          LET c == event'.call IN
          /\ IF readyRef THEN Len(posted') = Len(posted) + 1
                          ELSE Len(queueRef') = Len(queueRef) + 1
          /\ SentNow.message.type =
                (IF event'.op = "decryptRead" THEN "decrypt" ELSE "auto-unlock")
          /\ calls[c].type = SentNow.message.type
          /\ DOMAIN SentNow.message =
                (IF event'.op = "decryptRead"
                 THEN {"type", "id", "data", "password"}
                 ELSE {"type", "id", "data"})
          /\ event'.op = "decryptRead" => SentNow.message.password = calls[c].password
          /\ SentNow.message.id \in DOMAIN pendingRef'
          /\ pendingRef'[SentNow.message.id] = c
          /\ SentNow.message.id \notin DOMAIN pendingRef
          /\ SentNow.message.data.bytes = FileBytes(calls[c].file)
          /\ SentNow.transfer = <<SentNow.message.data>>]_vars

\* Both kinds of message have been posted to the worker.
C10_Witness ==
    /\ Len(posted) = 2
    /\ posted[1].message.type = "decrypt"
    /\ posted[1].message.password = "pass"
    /\ posted[1].message.data.bytes = <<1, 2, 3, 4>>
    /\ posted[2].message.type = "auto-unlock"
    /\ "password" \notin DOMAIN posted[2].message
    /\ posted[2].message.data.bytes = <<1, 2, 3, 4>>

\* The worker has just handled a request of the hook.
Handled ==
    /\ event'.op = "self.onmessage"
    /\ event'.data.type \in {"auto-unlock", "decrypt"}

\* C11: for every "auto-unlock" or "decrypt" message the worker receives, it
\* posts exactly one response, which carries the id of the request; an
\* "auto-unlock" is answered by "success", "needs-password" or "error" and a
\* "decrypt" by "success" or "error", also when the PDF library throws.
C11_OneResponsePerRequest ==
    [][Handled =>
          /\ Len(selfPosted') = Len(selfPosted) + 1
          /\ SubSeq(selfPosted', 1, Len(selfPosted)) = selfPosted
          /\ selfPosted'[Len(selfPosted')].message.id = event'.data.id
          /\ selfPosted'[Len(selfPosted')].message.type \in
                (IF event'.data.type = "auto-unlock"
                 THEN {"success", "needs-password", "error"}
                 ELSE {"success", "error"})]_workerVars

\* The library threw on a "decrypt" and on an "auto-unlock" request, and each
\* was answered by an "error" with the id of its request.
C11_Witness ==
    /\ Len(selfPosted) = 3
    /\ event.op = "self.onmessage"
    /\ event.data.type = "decrypt"
    /\ event.data.id = 1
    /\ event.doc.opens = "other"
    /\ selfPosted[3].message = [type |-> "error", id |-> 1, error |-> "Unknown error"]
    /\ selfPosted[2].message = [type |-> "error", id |-> 0, error |-> "cannot write"]

\* The indexes of the listed files with the id of pdfFile.
Listed(list, pdfFile) == {k \in 1..Len(list) : list[k].id = pdfFile.id}

\* The calls of autoUnlock made for pdfFile.
CallsFor(pdfFile) ==
    {j \in 1..Len(autoUnlockCalls) : autoUnlockCalls[j].id = pdfFile.id}

\* C12: every PDF file that is added is passed to autoUnlock exactly once,
\* whenever it is added, so that it leaves "queued"/"processing" once the
\* result arrives: a listed file has had one call of autoUnlock, and while it
\* is "queued" or "processing" a call for it is awaiting its result.
C12_AddedFilesAreProcessed ==
    \A k \in 1..Len(files) :
        /\ Cardinality(CallsFor(files[k])) = 1
        /\ files[k].status \in {"queued", "processing"} =>
              \E task \in running :
                  \/ task.fn = "processFile" /\ task.pdfFile.id = files[k].id
                  \/ /\ task.fn = "handleUnlockWithPassword"
                     /\ \E j \in (task.i)..Len(task.needsPassword) :
                            task.needsPassword[j].id = files[k].id

\* A file is a PDF by its MIME type or by the end of its name.
AcceptedFile(f) ==
    \/ f.type = "application/pdf"
    \/ /\ Len(f.name) >= 4
       /\ f.name[Len(f.name) - 3] = "."
       /\ f.name[Len(f.name) - 2] = "p"
       /\ f.name[Len(f.name) - 1] = "d"
       /\ f.name[Len(f.name)] = "f"

\* C13: addFiles appends to the list exactly the files of the batch whose
\* MIME type is "application/pdf" or whose name ends with ".pdf", in order;
\* autoUnlock is never called for another file, and a batch without such a
\* file leaves the list unchanged.
C13_OnlyPdfFilesAdded ==
    [][event'.op = "addFiles" =>
          LET added == [k \in 1..(Len(files') - Len(files)) |-> files'[Len(files) + k].file]
              called == [j \in 1..(Len(autoUnlockCalls') - Len(autoUnlockCalls)) |->
                            autoUnlockCalls'[Len(autoUnlockCalls) + j].file]
          IN /\ Len(files') >= Len(files)
             /\ SubSeq(files', 1, Len(files)) = files
             /\ added = SelectSeq(event'.newFiles, AcceptedFile)
             /\ \A j \in 1..Len(called) : AcceptedFile(called[j])
             /\ Len(autoUnlockCalls') >= Len(autoUnlockCalls)
             /\ (\A n \in 1..Len(event'.newFiles) : ~AcceptedFile(event'.newFiles[n]))
                    => files' = files /\ autoUnlockCalls' = autoUnlockCalls]_uiVars

\* A batch of a text file and a PDF named by its extension only has been added
\* to a list that held a PDF known by its MIME type only.
C13_Witness ==
    /\ event.op = "addFiles"
    /\ Len(event.newFiles) = 2
    /\ event.newFiles[1].type = "text/plain"
    /\ event.newFiles[2].type = ""
    /\ Len(files) = 2
    /\ files[1].file.type = "application/pdf"
    /\ files[2].file = event.newFiles[2]
    /\ Len(autoUnlockCalls) = 2

Resumed ==
    /\ event'.op = "handleUnlockWithPassword"
    /\ event'.step = "resume"

\* C15: a submission with a non-empty shared password calls decrypt with that
\* password for the files that are "needs-password" at the submission and for
\* no other file, one at a time in list order: the first at the submission,
\* each next one when the result of the one before has arrived; a file whose
\* decrypt succeeds becomes "unlocked" with the result's data.
C15_SharedPasswordUnlock ==
    [][/\ (event'.op = "handleUnlockWithPassword" /\ event'.step # "resume") =>
             IF sharedPassword = ""
             THEN event'.decrypt = << >> /\ files' = files /\ running' = running
             ELSE LET waiting == {k \in 1..Len(files) : files[k].status = "needs-password"}
                      needsPassword == event'.needsPassword
                  IN /\ Len(needsPassword) = Cardinality(waiting)
                     /\ \A n \in 1..Len(needsPassword) :
                            \E k \in waiting :
                                /\ needsPassword[n].id = files[k].id
                                /\ needsPassword[n].file = files[k].file
                                /\ Cardinality({w \in waiting : w < k}) = n - 1
                     /\ \A k \in 1..Len(files) :
                            files'[k].status =
                                (IF k \in waiting THEN "processing" ELSE files[k].status)
                     /\ event'.decrypt =
                            <<[pdfFile |-> needsPassword[1], password |-> sharedPassword]>>
                     /\ running' = running \cup
                            {[fn |-> "handleUnlockWithPassword",
                              needsPassword |-> needsPassword, i |-> 1,
                              sharedPassword |-> sharedPassword]}
       /\ Resumed =>
             LET task == event'.task
                 result == event'.result
             IN /\ task \in running
                /\ (result.success /\ "data" \in DOMAIN result) =>
                       \A k \in Listed(files, task.needsPassword[task.i]) :
                           /\ files'[k].status = "unlocked"
                           /\ files'[k].unlockedData = result.data
                /\ IF task.i < Len(task.needsPassword)
                   THEN /\ event'.decrypt =
                               <<[pdfFile |-> task.needsPassword[task.i + 1],
                                  password |-> task.sharedPassword]>>
                        /\ running' = (running \ {task}) \cup
                               {[task EXCEPT !.i = task.i + 1]}
                   ELSE /\ event'.decrypt = << >>
                        /\ running' = running \ {task}
       /\ event'.op \notin {"handleUnlockWithPassword", "processFile", "addFiles"} =>
             running' = running]_uiVars

\* Of two files that needed a password, the first was refused and the second,
\* decrypted after it with the same password, is unlocked.
C15_Witness ==
    /\ event.op = "handleUnlockWithPassword"
    /\ event.step = "resume"
    /\ event.task.i = 2
    /\ Len(event.task.needsPassword) = 2
    /\ event.task.sharedPassword = "secret123"
    /\ event.result.success
    /\ Len(files) = 2
    /\ files[1].status = "needs-password"
    /\ files[2].status = "unlocked"
    /\ event.decrypt = << >>

\* C16: when a decrypt fails, the file goes back to "needs-password", with
\* the errorMessage "Incorrect password" if the error text contains
\* "password" and the error text itself otherwise; the password form is shown
\* whenever a file needs a password and no file is "queued" or "processing".
C16_FailedDecryptAsksAgain ==
    [][/\ (Resumed /\ ~(event'.result.success /\ "data" \in DOMAIN event'.result)) =>
             \A k \in Listed(files, event'.task.needsPassword[event'.task.i]) :
                 LET result == event'.result
                     f == files'[k]
                 IN /\ f.status = "needs-password"
                    /\ IF "error" \notin DOMAIN result
                       THEN "errorMessage" \notin DOMAIN f
                       ELSE /\ "errorMessage" \in DOMAIN f
                            /\ f.errorMessage =
                                  (IF \E i \in 1..(Len(result.error) - 7) :
                                         /\ result.error[i] = "p"
                                         /\ result.error[i + 1] = "a"
                                         /\ result.error[i + 2] = "s"
                                         /\ result.error[i + 3] = "s"
                                         /\ result.error[i + 4] = "w"
                                         /\ result.error[i + 5] = "o"
                                         /\ result.error[i + 6] = "r"
                                         /\ result.error[i + 7] = "d"
                                   THEN IncorrectPassword
                                   ELSE result.error)
       /\ ((\E k \in 1..Len(files') : files'[k].status = "needs-password")
           /\ (\A k \in 1..Len(files') : files'[k].status \notin {"queued", "processing"}))
             => PasswordFormShown']_uiVars

\* A decrypt was refused with a text that holds "password": the file needs a
\* password again and the form is back.
C16_Witness ==
    /\ event.op = "handleUnlockWithPassword"
    /\ event.step = "resume"
    /\ event.result = [success |-> FALSE, error |-> WrongPassword]
    /\ Len(files) = 1
    /\ files[1].status = "needs-password"
    /\ files[1].errorMessage = IncorrectPassword
    /\ PasswordFormShown

\* A result of autoUnlock or of decrypt has arrived for pdfFile.
ResultArrived(pdfFile) ==
    \/ event'.op = "processFile" /\ event'.pdfFile = pdfFile
    \/ Resumed /\ event'.task.needsPassword[event'.task.i] = pdfFile

\* C17: "Clear all" empties the list and the shared password; an empty list
\* stays empty until files are added; a result that arrives changes no file
\* but the one it is for, adds none, and changes nothing when its file is no
\* longer listed.
C17_ResetIsFinal ==
    [][/\ event'.op = "handleReset" => files' = << >> /\ sharedPassword' = ""
       /\ (files = << >> /\ files' # << >>) => event'.op = "addFiles"
       /\ \A id \in 1..MaxFiles, file \in OfferedFiles :
              ResultArrived([id |-> id, file |-> file]) =>
                  /\ Len(files') = Len(files)
                  /\ \A k \in 1..Len(files) : files[k].id # id => files'[k] = files[k]
                  /\ \A k \in 1..Len(files) : files'[k].id = files[k].id]_uiVars

\* The result of a file that was cleared arrived after the same File had been
\* added again: the new entry is still being processed.
C17_Witness ==
    /\ event.op = "processFile"
    /\ event.pdfFile.id = 1
    /\ event.result.success
    /\ Len(files) = 1
    /\ files[1].id = 2
    /\ files[1].file = event.pdfFile.file
    /\ files[1].status = "processing"

\* C18: the progress display is shown exactly while a file is "queued" or
\* "processing"; the processed files and the "queued" or "processing" files
\* add up to the total; the progress is between 0 and 100.
C18_ProgressDisplay ==
    LET pending == {k \in 1..Len(files) : files[k].status \in {"queued", "processing"}}
    IN /\ ProgressShown <=> pending # {}
       /\ processedFiles + Cardinality(pending) = totalFiles
       /\ progress >= 0
       /\ progress <= 100

\* One file is in error and the other is still being processed: half done.
C18_Witness ==
    /\ Len(files) = 2
    /\ files[1].status = "error"
    /\ files[2].status = "processing"
    /\ ProgressShown
    /\ progress = 50

TransferredBefore(seq, i) ==
    {seq[j].transfer[n].buf : j \in 1..(i - 1), n \in {1}}

\* The bytes the receiver finds in the data of the i-th request: those of the
\* buffer, unless an earlier request has transferred it away.
ReceivedBytes(seq, i) ==
    IF seq[i].message.data.buf \in TransferredBefore(seq, i)
    THEN << >>
    ELSE seq[i].message.data.bytes

\* C20: every request the hook posts or queues lists its file buffer, and
\* nothing else, in its transfer list, and the buffer is a fresh one, so that
\* a later request for the same file still carries the file's bytes; every
\* "success" response the worker gives to such a request lists its result
\* buffer in its transfer list.
C20_BuffersTransferred ==
    LET requests == posted \o Flushed(queueRef)
    IN /\ \A i \in 1..Len(requests) :
              /\ requests[i].transfer = <<requests[i].message.data>>
              /\ \E file \in Files : ReceivedBytes(requests, i) = FileBytes(file)
       /\ \A i \in 1..Len(requests), doc \in Docs :
              LET responses == Respond(requests[i].message, doc)
              IN \A n \in 1..Len(responses) :
                     responses[n].message.type = "success" =>
                         responses[n].transfer = <<responses[n].message.data>>

\* Two requests for the same file have been posted, each with a buffer of its
\* own that holds the file's bytes; the worker answers the first with a
\* "success" if the library can save it.
C20_Witness ==
    /\ Len(posted) = 2
    /\ posted[1].message.data.buf # posted[2].message.data.buf
    /\ posted[1].message.data.bytes = posted[2].message.data.bytes
    /\ posted[2].transfer = <<posted[2].message.data>>
    /\ \E doc \in Docs :
           Respond(posted[1].message, doc)[1].message.type = "success"

\* C22: every promise returned by autoUnlock or decrypt is eventually
\* resolved, also when its request is pending or queued, or its file still
\* being read, at the moment the hook unmounts or the worker's error event
\* fires.
C22_EveryPromiseResolved ==
    \A c \in CallIds :
        (calls[c].pc \in {"reading", "pending"}) ~> (calls[c].pc = "done")

\* C23: a message is posted to the worker only for a request whose resolver
\* is in the registry at the moment of the posting, also when "ready" flushes
\* the queue after the worker's error event has cleared the registry.
C23_PostedOnlyWhilePending ==
    [][\A i \in (Len(posted) + 1)..Len(posted') :
           posted'[i].message.id \in DOMAIN pendingRef']_vars

\* C24: after the hook has unmounted, the registry is empty and stays empty,
\* also when a call that was reading its file at the unmount goes on.
C24_RegistryEmptyAfterUnmount == terminated => pendingRef = EmptyMap

\* The ids of the requests that are registered, queued or posted.
KnownIds ==
    (DOMAIN pendingRef)
    \cup {queueRef[i].id : i \in 1..Len(queueRef)}
    \cup {posted[i].message.id : i \in 1..Len(posted)}
    \cup {calls[c].id : c \in {d \in CallIds : calls[d].pc = "pending"}}

\* C25: every request is given an id that no earlier request was given: ids
\* start at 0 and go up by one in the order in which the requests finish
\* reading their file, so the new id is no key of the registry and no
\* resolver is overwritten.
C25_FreshIds ==
    /\ idRef = 0
    /\ [][/\ event'.op \in ReadOps =>
                LET id == calls'[event'.call].id
                IN /\ id = idRef
                   /\ idRef' = id + 1
                   /\ \A k \in KnownIds : k < id
                   /\ id \notin DOMAIN pendingRef
                   /\ DOMAIN pendingRef' = (DOMAIN pendingRef) \cup {id}
                   /\ \A k \in DOMAIN pendingRef : pendingRef'[k] = pendingRef[k]
                   /\ pendingRef'[id] = event'.call
          /\ event'.op \notin ReadOps => idRef' = idRef]_vars

\* The call that finished reading first has id 0 and the other has id 1; both
\* are registered.
C25_Witness ==
    /\ calls[2] = [pc |-> "pending", id |-> 0]
    /\ calls[1] = [pc |-> "pending", id |-> 1]
    /\ idRef = 2
    /\ DOMAIN pendingRef = {0, 1}
    /\ pendingRef[0] = 2
    /\ pendingRef[1] = 1

\* C26: a promise is resolved at most once: a call that is done stays as it
\* is, the registry entry of a call is gone when the call is resolved, and a
\* response whose id has no entry changes nothing in the hook.
C26_ResolvedOnce ==
    [][/\ \A c \in CallIds : calls[c].pc = "done" => calls'[c] = calls[c]
       /\ \A c \in CallIds :
              (calls[c].pc = "pending" /\ calls'[c].pc = "done") =>
                  /\ calls[c].id \notin DOMAIN pendingRef'
                  /\ \A k \in DOMAIN pendingRef' : pendingRef'[k] # c
       /\ (/\ event'.op = "onmessage"
           /\ event'.data.type # "ready"
           /\ event'.data.id \notin DOMAIN pendingRef) =>
              UNCHANGED <<workerRef, pendingRef, idRef, readyRef, queueRef, posted,
                          terminated, calls>>]_vars

\* A second response came for a request that a "success" had resolved: the
\* call keeps its result.
C26_Witness ==
    /\ event.op = "onmessage"
    /\ event.data = [type |-> "needs-password", id |-> 0]
    /\ 0 \notin DOMAIN pendingRef
    /\ calls[1].pc = "done"
    /\ calls[1].result.success
    /\ ~terminated

\* The changes of status of FileStatus that the component makes.
StatusMoves ==
    { <<"queued", "processing">>,
      <<"processing", "unlocked">>,
      <<"processing", "needs-password">>,
      <<"processing", "error">>,
      <<"needs-password", "processing">> }

\* The file is one that a submission of the password is working on.
InPasswordRun(f) ==
    \E task \in running :
        /\ task.fn = "handleUnlockWithPassword"
        /\ \E n \in (task.i)..Len(task.needsPassword) : task.needsPassword[n].id = f.id

\* C27: a listed file enters the list "queued" or "processing" and its status
\* only moves queued -> processing -> unlocked, needs-password or error, and
\* needs-password -> processing -> unlocked or needs-password; a file that is
\* "unlocked" or "error" keeps its status.
C27_StatusMoves ==
    [][/\ \A j \in 1..Len(files') :
              (\A k \in 1..Len(files) : files[k].id # files'[j].id) =>
                  files'[j].status \in {"queued", "processing"}
       /\ \A k \in 1..Len(files), j \in 1..Len(files') :
              files'[j].id = files[k].id =>
                  /\ \/ files'[j].status = files[k].status
                     \/ <<files[k].status, files'[j].status>> \in StatusMoves
                  /\ files[k].status \in {"unlocked", "error"} =>
                         files'[j].status = files[k].status
                  /\ InPasswordRun(files[k]) =>
                         files'[j].status \in {"processing", "unlocked", "needs-password"}]_uiVars

\* Of two files that needed a password and were decrypted with the shared
\* one, the first is unlocked and the second, refused, needs a password again.
C27_Witness ==
    /\ event.op = "handleUnlockWithPassword"
    /\ event.step = "resume"
    /\ event.task.i = 2
    /\ ~event.result.success
    /\ Len(files) = 2
    /\ files[1].status = "unlocked"
    /\ files[2].status = "needs-password"
    /\ "errorMessage" \in DOMAIN files[2]
    /\ files[2].errorMessage = CorruptFile

\* C28: a file that is "unlocked" has unlocked data, which is the data of the
\* result returned for this file: a file becomes "unlocked", or gets data,
\* only in the step in which a successful result for it arrives, with the
\* data of that result; a result for one file changes no other file.
C28_UnlockedData ==
    [][/\ \A j \in 1..Len(files') :
              files'[j].status = "unlocked" =>
                  /\ "unlockedData" \in DOMAIN files'[j]
                  /\ files'[j].unlockedData =
                        Uint8Array(ArrayBuffer("reply", UnlockedBytes(files'[j].file)))
       /\ \A k \in 1..Len(files), j \in 1..Len(files') :
              (/\ files'[j].id = files[k].id
               /\ \/ files'[j].status = "unlocked" /\ files[k].status # "unlocked"
                  \/ "unlockedData" \in DOMAIN files'[j] /\ "unlockedData" \notin DOMAIN files[k]) =>
                  /\ ResultArrived([id |-> files[k].id, file |-> files[k].file])
                  /\ event'.result.success
                  /\ files'[j].unlockedData = event'.result.data
       /\ \A k \in 1..Len(files), j \in 1..Len(files') :
              (/\ files'[j].id = files[k].id
               /\ "unlockedData" \in DOMAIN files[k]) =>
                  /\ "unlockedData" \in DOMAIN files'[j]
                  /\ files'[j].unlockedData = files[k].unlockedData
       /\ \A id \in 1..MaxFiles, file \in OfferedFiles :
              ResultArrived([id |-> id, file |-> file]) =>
                  \A k \in 1..Len(files) :
                      files[k].id # id => (k <= Len(files') /\ files'[k] = files[k])]_uiVars

\* Two different files are unlocked, each with the data of its own result.
C28_Witness ==
    /\ event.op = "processFile"
    /\ event.result.success
    /\ Len(files) = 2
    /\ files[1].file # files[2].file
    /\ files[1].status = "unlocked"
    /\ files[2].status = "unlocked"
    /\ files[2].id = event.pdfFile.id
    /\ files[2].unlockedData = event.result.data
    /\ files[1].unlockedData # files[2].unlockedData

\* C29: whenever the status is "unlocked" with a file selected, the bytes
\* offered for download are the unlocked copy of the file selected.
C29_UnlockedFromSelectedFile ==
    (single.status = "unlocked" /\ "file" \in DOMAIN single) =>
        /\ "unlockedPdf" \in DOMAIN single
        /\ single.unlockedPdf = Uint8Array(ArrayBuffer("reply", UnlockedBytes(single.file)))

\* The answer of the self.onmessage run that the step just taken is.
Reply == selfPosted'[Len(selfPosted')].message

\* The step just taken is self.onmessage on a request of the given type for
\* bytes that the library opens as a document.
Asked(type) ==
    /\ event'.op = "self.onmessage"
    /\ event'.data.type = type
    /\ event'.doc.opens = "ok"

\* The document requires a password and the given one fails to authenticate.
Refuses(doc, password) == doc.needsPassword /\ authenticatePassword(doc, password) = 0

\* The answer is the error "Incorrect password".
AnswerIsIncorrectPassword ==
    /\ Reply.type = "error"
    /\ Reply.error = "Incorrect password"

\* C30 as stated: of a document that opens, "auto-unlock" is answered with
\* "needs-password" only when the document refuses the empty password or
\* cannot be treated as a PDF, and with "success" when it requires no
\* password or the empty password authenticates; "decrypt" is answered with
\* the error "Incorrect password" exactly when the document refuses the given
\* password, and with "success" whenever the document requires no password.
C30_AnswersAsStated ==
    [][/\ Asked("auto-unlock") =>
              /\ Reply.type = "needs-password" =>
                     (Refuses(event'.doc, "") \/ ~event'.doc.pdf)
              /\ ~Refuses(event'.doc, "") => Reply.type = "success"
       /\ Asked("decrypt") =>
              /\ AnswerIsIncorrectPassword <=> Refuses(event'.doc, event'.data.password)
              /\ ~event'.doc.needsPassword => Reply.type = "success"]_workerVars

\* C30, amended: of a document that opens, "auto-unlock" is answered with
\* "needs-password" exactly when the document refuses the empty password or
\* cannot be treated as a PDF, and otherwise with "success" if the document
\* can be saved and with "error" if not; "decrypt" is answered with the error
\* "Incorrect password" exactly when the document refuses the given password,
\* and otherwise, whatever the password, with "success" if the document is a
\* PDF that can be saved, with the error "Not a valid PDF document" if it is
\* no PDF, and with the error of the save if it cannot be saved.
C30_Answers ==
    [][/\ Asked("auto-unlock") =>
              /\ Reply.type = "needs-password" <=>
                     (Refuses(event'.doc, "") \/ ~event'.doc.pdf)
              /\ Reply.type = "success" <=>
                     (~Refuses(event'.doc, "") /\ event'.doc.pdf /\ event'.doc.saves)
              /\ Reply.type \in {"needs-password", "success", "error"}
       /\ Asked("decrypt") =>
              /\ AnswerIsIncorrectPassword <=> Refuses(event'.doc, event'.data.password)
              /\ Reply.type = "success" <=>
                     (/\ ~Refuses(event'.doc, event'.data.password)
                      /\ event'.doc.pdf
                      /\ event'.doc.saves)
              /\ (~Refuses(event'.doc, event'.data.password) /\ ~event'.doc.pdf) =>
                     (Reply.type = "error" /\ Reply.error = "Not a valid PDF document")
              /\ Reply.type \in {"success", "error"}]_workerVars

\* A document that requires no password is decrypted with a password given,
\* and the worker has answered "success".
C30_Witness ==
    /\ event.op = "self.onmessage"
    /\ event.data.type = "decrypt"
    /\ event.data.password = "mypassword"
    /\ event.doc.opens = "ok"
    /\ ~event.doc.needsPassword
    /\ event.doc.pdf
    /\ event.doc.saves
    /\ selfPosted[Len(selfPosted)].message.type = "success"
    /\ selfPosted[Len(selfPosted)].message.id = event.data.id

TypeOK ==
    /\ workerRef \in {"worker", Null}
    /\ readyRef \in BOOLEAN
    /\ terminated \in BOOLEAN
    /\ idRef \in 0..MaxCalls
    /\ DOMAIN pendingRef \subseteq 0..(MaxCalls - 1)
    /\ \A k \in DOMAIN pendingRef : pendingRef[k] \in CallIds
====
